---------------------------- MODULE Spec2Model ----------------------------
(***************************************************************************)
(* A model of the orbits crate: the path-keyed trie (src/src/tree.rs), its *)
(* nodes (src/src/tree/node.rs) and the discovery engine                   *)
(* (src/src/orbit.rs).                                                     *)
(*                                                                         *)
(* A local path is the sequence of its components ("a/b" is <<"a","b">>);  *)
(* a root path is a string, "" being Path::new("").  A tree is a function  *)
(* from the position of each node (the keys from the root node down to it) *)
(* to the node's payload; the root node sits at position <<>>.             *)
(***************************************************************************)
EXTENDS Naturals, Sequences, FiniteSets, TLC

VARIABLES
    tree,   \* Tree::root: the nodes of the tree (of the LaunchPad's tree in DiscoverSpec)
    last,   \* the call observed last: its arguments, the tree before it, its result
    pad,    \* LaunchPad: handler, ignore, collect, collected
    orbit   \* Orbit: the physical, patch and virt trees

vars == <<tree, last, pad, orbit>>

\* ------------------------------------------------------------------ bounds

\* The trees explored hold at most MaxNodes nodes besides the root node.
MaxNodes == 2

\* A directory walk yields at most MaxWalk entries.
MaxWalk == 2

\* The accumulator of collected pairs holds at most MaxCollected pairs.
MaxCollected == 1

\* Path components.
Keys == {"a", "b"}

\* Root paths; "" is the empty path.
Roots == {"", "R1", "R2"}

EntryTypes == {"Directory", "File"}

\* The local paths handed to the operations (never the empty path).
LocalPaths == UNION {[1..n -> Keys] : n \in 1..MaxNodes}

\* ----------------------------------------------------------------- options

\* Rust's Option: None, or Some(x).
None == <<>>

Some(x) == <<x>>

IsSome(o) == o # <<>>

Unwrap(o) == o[1]

\* ------------------------------------------------------------------- paths

\* Path::parent of a path with at least one component.
Parent(path) == SubSeq(path, 1, Len(path) - 1)

\* Path::file_name of a path with at least one component.
FileName(path) == path[Len(path)]

\* p is q or an ancestor of q.
IsPrefix(p, q) == Len(p) <= Len(q) /\ SubSeq(q, 1, Len(p)) = p

\* Path::join of a root path and a relative local path: joining to the empty
\* path gives the local path itself.
Join(root, local) == IF root = "" THEN local ELSE <<root>> \o local

\* -------------------------------------------------------------------- node

\* Node::new: the payload of a node, keyed by the file name of local_path.
NodeNew(root_path, local_path) ==
    [root_path |-> root_path, local_path |-> local_path]

\* RawTreeNode::new.
RawTreeNodeNew(raw, entry_type) ==
    [root_path |-> raw.root_path, local_path |-> raw.local_path,
     entry_type |-> entry_type]

\* Node::get_key: the node's name.
get_key(data) == FileName(data.local_path)

\* Tree::new: the root node alone, a directory with empty paths.
TreeNew ==
    [p \in {<<>>} |-> [root_path |-> "", local_path |-> <<>>,
                       entry_type |-> "Directory"]]

\* ------------------------------------------------------------- trie engine

\* The keys of RawNode::children of the node at position node, as positions.
Children(t, node) ==
    {q \in DOMAIN t : Len(q) = Len(node) + 1 /\ IsPrefix(node, q)}

\* Dropping a node and everything below it (the children map owns them).
DropSubtree(t, pos) ==
    [q \in {x \in DOMAIN t : ~IsPrefix(pos, x)} |-> t[q]]

\* Tree::get_path: one child per component from the root node; the position
\* found, or None as soon as a component is missing.
RECURSIVE get_path_from(_, _, _)
get_path_from(t, current_node, components) ==
    IF components = <<>> THEN Some(current_node)
    ELSE LET next_node == Append(current_node, Head(components))
         IN  IF next_node \in DOMAIN t
             THEN get_path_from(t, next_node, Tail(components))
             ELSE None

get_path(t, path) == get_path_from(t, <<>>, path)

\* Tree::contains_path.
contains_path(t, path) == IsSome(get_path(t, path))

\* Mutant of add_child: replacing a child swaps the payload and keeps the old
\* node's children.
add_child_keep_children(t, parent, data, overwrite) ==
    LET pos == Append(parent, get_key(data))
    IN  IF pos \in DOMAIN t
        THEN IF overwrite
             THEN [tree |-> [q \in DOMAIN t |-> IF q = pos THEN data ELSE t[q]],
                   old |-> Some(t[pos])]
             ELSE [tree |-> t, old |-> None]
        ELSE [tree |-> [q \in DOMAIN t \cup {pos} |->
                           IF q = pos THEN data ELSE t[q]],
              old |-> None]

\* Mutant of add_child: replacing a child hands back the new payload.
add_child_returns_new(t, parent, data, overwrite) ==
    LET pos == Append(parent, get_key(data))
    IN  IF pos \in DOMAIN t
        THEN IF overwrite
             THEN [tree |-> [q \in DOMAIN DropSubtree(t, pos) \cup {pos} |->
                                IF q = pos THEN data ELSE t[q]],
                   old |-> Some(data)]
             ELSE [tree |-> t, old |-> None]
        ELSE [tree |-> [q \in DOMAIN t \cup {pos} |->
                           IF q = pos THEN data ELSE t[q]],
              old |-> None]

\* RawNode::add_child on the node at position parent: the tree afterwards and
\* the payload replaced, if any.  Replacing a child drops its children.
add_child(t, parent, data, overwrite) ==
    LET pos == Append(parent, get_key(data))
    IN  IF pos \in DOMAIN t
        THEN IF overwrite
             THEN [tree |-> [q \in DOMAIN DropSubtree(t, pos) \cup {pos} |->
                                IF q = pos THEN data ELSE t[q]],
                   old |-> Some(t[pos])]
             ELSE [tree |-> t, old |-> None]
        ELSE [tree |-> [q \in DOMAIN t \cup {pos} |->
                           IF q = pos THEN data ELSE t[q]],
              old |-> None]

\* Mutant of InsertedNode: the arms swapped, a file losing its root.
InsertedNode_swapped(root_path, local_path, entry_type) ==
    IF entry_type = "Directory"
    THEN [root_path |-> root_path, local_path |-> local_path,
          entry_type |-> entry_type]
    ELSE [root_path |-> "", local_path |-> local_path,
          entry_type |-> entry_type]

\* Mutant of InsertedNode: a directory records the root it was given.
InsertedNode_keeps_root(root_path, local_path, entry_type) ==
    [root_path |-> root_path, local_path |-> local_path,
     entry_type |-> entry_type]

\* The payload insert_path_unchecked builds: a directory never records the
\* root it was given.
InsertedNode(root_path, local_path, entry_type) ==
    IF entry_type = "Directory"
    THEN RawTreeNodeNew(NodeNew("", local_path), entry_type)
    ELSE RawTreeNodeNew(NodeNew(root_path, local_path), entry_type)

\* Mutant of insert_path_unchecked: a missing parent is inserted with the
\* root and the entry type of the entry itself.
RECURSIVE insert_path_unchecked_same_parent(_, _, _, _)
insert_path_unchecked_same_parent(t, root_path, local_path, entry_type) ==
    LET parent_path == Parent(local_path)
        t1 == IF parent_path = <<>> \/ IsSome(get_path(t, parent_path))
              THEN t
              ELSE insert_path_unchecked_same_parent(
                       t, root_path, parent_path, entry_type).tree
        parent_node == IF parent_path = <<>> THEN <<>>
                       ELSE Unwrap(get_path(t1, parent_path))
        r == add_child(t1, parent_node,
                       InsertedNode(root_path, local_path, entry_type), TRUE)
    IN  [tree |-> r.tree,
         ret |-> IF IsSome(r.old)
                 THEN Some(<<Unwrap(r.old).root_path, Unwrap(r.old).local_path>>)
                 ELSE None]

\* Tree::insert_path_unchecked: the tree afterwards and the (root, local)
\* pair returned.  A missing parent is inserted first, as a directory.
RECURSIVE insert_path_unchecked(_, _, _, _)
insert_path_unchecked(t, root_path, local_path, entry_type) ==
    LET parent_path == Parent(local_path)
        t1 == IF parent_path = <<>> \/ IsSome(get_path(t, parent_path))
              THEN t
              ELSE insert_path_unchecked(t, "", parent_path, "Directory").tree
        parent_node == IF parent_path = <<>> THEN <<>>
                       ELSE Unwrap(get_path(t1, parent_path))
        r == add_child(t1, parent_node,
                       InsertedNode(root_path, local_path, entry_type), TRUE)
    IN  [tree |-> r.tree,
         ret |-> IF IsSome(r.old)
                 THEN Some(<<Unwrap(r.old).root_path, Unwrap(r.old).local_path>>)
                 ELSE None]

\* Tree::insert_file.
insert_file(t, root_path, local_path) ==
    insert_path_unchecked(t, root_path, local_path, "File")

\* Tree::insert_directory.
insert_directory(t, root_path, local_path) ==
    insert_path_unchecked(t, root_path, local_path, "Directory")

\* Mutant of remove_path: only a child of the root node is ever removed.
remove_path_top_level(t, path) ==
    LET pos == <<FileName(path)>>
    IN  IF Parent(path) = <<>> /\ pos \in DOMAIN t
        THEN [tree |-> DropSubtree(t, pos),
              ret |-> Some(<<t[pos].root_path, t[pos].local_path>>)]
        ELSE [tree |-> t, ret |-> None]

\* Tree::remove_path: the tree afterwards and the (root, local) pair returned.
remove_path(t, path) ==
    LET name == FileName(path)
        parent_path == Parent(path)
        parent == IF parent_path = <<>> THEN Some(<<>>)
                  ELSE get_path(t, parent_path)
    IN  IF ~IsSome(parent) THEN [tree |-> t, ret |-> None]
        ELSE LET pos == Append(Unwrap(parent), name)
             IN  IF pos \in DOMAIN t
                 THEN [tree |-> DropSubtree(t, pos),
                       ret |-> Some(<<t[pos].root_path, t[pos].local_path>>)]
                 ELSE [tree |-> t, ret |-> None]

\* Tree::get_root_for_path.
get_root_for_path(t, path) ==
    IF IsSome(get_path(t, path))
    THEN Some(t[Unwrap(get_path(t, path))].root_path)
    ELSE None

\* Tree::walk_paths: the orders in which the visitor can see the nodes.  The
\* root node is skipped, a node comes before its children, and the children of
\* a node come in the order their hash map yields them, which is any order.
RECURSIVE walk_internal(_, _), walk_children(_, _)
walk_internal(t, node) ==
    LET here == IF Len(node) # 0 THEN <<node>> ELSE <<>>
    IN  {here \o s : s \in walk_children(t, Children(t, node))}

walk_children(t, S) ==
    IF S = {} THEN {<<>>}
    ELSE UNION {{s1 \o s2 : s1 \in walk_internal(t, c),
                            s2 \in walk_children(t, S \ {c})} : c \in S}

walk_paths(t) == walk_internal(t, <<>>)

\* The local paths a walk visits.
Visited(w) == {w[i] : i \in 1..Len(w)}

\* remove_path on each local path of a list in turn: the tree afterwards and
\* the (root, local) pairs of the removals that returned one.
RECURSIVE remove_each(_, _, _)
remove_each(t, to_remove, done) ==
    IF to_remove = <<>> THEN [tree |-> t, removed |-> done]
    ELSE LET r == remove_path(t, Head(to_remove))
         IN  remove_each(r.tree, Tail(to_remove),
                         IF IsSome(r.ret) THEN Append(done, Unwrap(r.ret))
                         ELSE done)

\* The stored local paths of the nodes of walk w whose payload is in hit, in
\* the order of the walk: what a visitor pushing them collects.
Collect(t, w, hit) ==
    LET hits == SelectSeq(w, LAMBDA p : t[p] \in hit)
    IN  [i \in 1..Len(hits) |-> t[hits[i]].local_path]

\* Mutant of remove_paths_by_root: every matched path is returned, removed by
\* its own call or not.
remove_paths_by_root_all_matched(t, root, w) ==
    LET matches == {t[p] : p \in {q \in DOMAIN t : t[q].root_path = root}}
        to_remove == Collect(t, w, matches)
    IN  [tree |-> remove_each(t, to_remove, <<>>).tree, ret |-> to_remove]

\* Tree::remove_paths_by_root, the walk visiting the nodes in order w: the tree
\* afterwards and the local paths returned.
remove_paths_by_root(t, root, w) ==
    LET matches == {t[p] : p \in {q \in DOMAIN t : t[q].root_path = root}}
        to_remove == Collect(t, w, matches)
        r == remove_each(t, to_remove, <<>>)
    IN  [tree |-> r.tree,
         ret |-> [i \in 1..Len(r.removed) |-> r.removed[i][2]]]

\* The traversal of Tree::filter_walk_paths with a predicate that rejects the
\* payloads in rej: the lists of (local path, complaint) it can collect.  A
\* rejected node's children are not visited.
RECURSIVE filter_internal(_, _, _), filter_children(_, _, _)
\* Mutant of filter_internal: the depth test off by one, the root node's
\* children never put to the predicate.
filter_internal_skip_top(t, node, rej) ==
    IF Len(node) > 1 /\ t[node] \in rej
    THEN {<< <<t[node].local_path, "complaint">> >>}
    ELSE filter_children(t, Children(t, node), rej)

filter_internal(t, node, rej) ==
    IF Len(node) # 0 /\ t[node] \in rej
    THEN {<< <<t[node].local_path, "complaint">> >>}
    ELSE filter_children(t, Children(t, node), rej)

filter_children(t, S, rej) ==
    IF S = {} THEN {<<>>}
    ELSE UNION {{s1 \o s2 : s1 \in filter_internal(t, c, rej),
                            s2 \in filter_children(t, S \ {c}, rej)} : c \in S}

\* Tree::filter_walk_paths once the traversal collected rejected: the tree
\* afterwards and the (root, local, reason) triples returned.
RECURSIVE filter_remove(_, _, _)
filter_remove(t, rejected, done) ==
    IF rejected = <<>> THEN [tree |-> t, ret |-> done]
    ELSE LET r == remove_path(t, Head(rejected)[1])
         IN  filter_remove(r.tree, Tail(rejected),
                 IF IsSome(r.ret)
                 THEN Append(done, <<Unwrap(r.ret)[1], Unwrap(r.ret)[2],
                                     Head(rejected)[2]>>)
                 ELSE done)

\* Mutant of filter_walk_paths: the entries are removed and none is listed.
filter_walk_paths_unlisted(t, rejected) ==
    [tree |-> filter_remove(t, rejected, <<>>).tree, ret |-> <<>>]

filter_walk_paths(t, rejected) == filter_remove(t, rejected, <<>>)

\* Mutant of purify: the negation lost, the entries that exist are removed.
purify_inverted(t, exists, w) ==
    LET gone == {t[p] : p \in {q \in DOMAIN t :
                                   <<t[q].root_path, t[q].local_path>> \in exists}}
        to_remove == Collect(t, w, gone)
    IN  remove_each(t, to_remove, <<>>).tree

\* Tree::purify, the loader's path_exists holding of the (root, local) pairs
\* in exists and the walk visiting the nodes in order w: the tree afterwards.
purify(t, exists, w) ==
    LET gone == {t[p] : p \in {q \in DOMAIN t :
                                   <<t[q].root_path, t[q].local_path>> \notin exists}}
        to_remove == Collect(t, w, gone)
    IN  remove_each(t, to_remove, <<>>).tree

\* What FileLoader::get_path_type(root, local) yields when the loader answers
\* resp ("Directory", "File" or "Err"), with the pair it was asked for.
loader_get_path_type(resp, root_path, local_path) ==
    [kind |-> IF resp = "Err" THEN "Err" ELSE "Ok", type |-> resp,
     asked |-> Some(<<root_path, local_path>>)]

\* Mutant of get_path_type: the loader is asked about every node.
get_path_type_always_asks(t, path, resp) ==
    IF IsSome(get_path(t, path))
    THEN loader_get_path_type(resp, t[path].root_path, t[path].local_path)
    ELSE loader_get_path_type(resp, "", path)

\* Tree::get_path_type, the loader answering resp: a node with an empty root
\* is a Directory and the loader is not asked.
get_path_type(t, path, resp) ==
    IF IsSome(get_path(t, path))
    THEN IF t[path].root_path = ""
         THEN [kind |-> "Ok", type |-> "Directory", asked |-> None]
         ELSE loader_get_path_type(resp, t[path].root_path,
                                   t[path].local_path)
    ELSE loader_get_path_type(resp, "", path)

\* What FileLoader::load_path(root, local) yields when the loader answers
\* resp: the bytes of that (root, local), or the loader's error.
load_path(resp, root_path, local_path) ==
    IF resp = "Ok" THEN [kind |-> "Ok", root |-> root_path, local |-> local_path]
    ELSE [kind |-> "Err", root |-> root_path, local |-> local_path]

\* Tree::load, the loader answering resp: Ok(Some(bytes)), Ok(None) or
\* Err(e), with the (root, local) the loader was asked for.
load(t, path, resp) ==
    IF IsSome(get_path(t, path))
    THEN LET node == t[Unwrap(get_path(t, path))]
             r == load_path(resp, node.root_path, node.local_path)
         IN  IF r.kind = "Ok"
             THEN [kind |-> "OkSome", root |-> r.root, local |-> r.local]
             ELSE [kind |-> "Err", root |-> r.root, local |-> r.local]
    ELSE LET r == load_path(resp, "", path)
         IN  IF r.kind = "Ok"
             THEN [kind |-> "OkSome", root |-> r.root, local |-> r.local]
             ELSE [kind |-> "OkNone", root |-> r.root, local |-> r.local]

\* --------------------------------------------------------------- discovery

ConflictHandlers == {"Strict", "NoRoot", "First", "Last"}

\* The roots discovery walks.
DiscoverRoots == Roots \ {""}

\* What walkdir's DirEntry::file_type can be.
FileTypes == {"dir", "file", "symlink"}

\* An entry a walk yields: its path relative to the walked root, and its type.
WalkEntry(local, ftype) == [local |-> local, ftype |-> ftype]

\* The entries that can follow the entries of w in a walk (WalkDir with
\* min_depth(1), depth first): a path not yielded yet, at the top level or in
\* the directory the walk is in (every entry since that directory is below it).
CanFollow(w, e) ==
    /\ \A i \in 1..Len(w) : w[i].local # e.local
    /\ \/ Len(e.local) = 1
       \/ \E j \in 1..Len(w) :
              /\ w[j].local = Parent(e.local)
              /\ w[j].ftype = "dir"
              /\ \A k \in (j + 1)..Len(w) : IsPrefix(w[j].local, w[k].local)

\* The walks of at most n entries.
RECURSIVE WalksUpTo(_)
WalksUpTo(n) ==
    IF n = 0 THEN {<<>>}
    ELSE LET shorter == WalksUpTo(n - 1)
         IN  shorter \cup
             {Append(w, WalkEntry(local, ftype)) :
                 w \in {x \in shorter : Len(x) = n - 1},
                 local \in LocalPaths, ftype \in FileTypes}

Walks == {w \in WalksUpTo(MaxWalk) :
             \A i \in 1..Len(w) : CanFollow(SubSeq(w, 1, i - 1), w[i])}

\* ConflictKind::StandardConflict.
StandardConflict(error_root, source_root, local) ==
    [kind |-> "StandardConflict", error_root |-> error_root,
     source_root |-> source_root, local |-> local]

\* ConflictKind::RootConflict(root, path).
RootConflict(bad_root, conflict_file) ==
    [kind |-> "RootConflict", bad_root |-> bad_root,
     conflict_file |-> conflict_file]

\* handle_conflict under NoRoot once remove_paths_by_root has left tree t1:
\* the root conflict names the incoming root and the occupant's full path, or
\* the bare local path when nothing occupies it any more.
root_conflict(t1, root, root_path, local_path) ==
    [tree |-> t1, panic |-> FALSE,
     ret |-> IF IsSome(root)
             THEN Some(RootConflict(root_path, Join(Unwrap(root), local_path)))
             ELSE Some(RootConflict(root_path, local_path))]

\* Mutant of standard_conflict: the occupant is removed as the conflict is
\* reported.
standard_conflict_evicts(t, root, root_path, local_path) ==
    [tree |-> remove_path(t, local_path).tree, panic |-> FALSE,
     ret |-> IF IsSome(root)
             THEN Some(StandardConflict(root_path, Unwrap(root), local_path))
             ELSE Some(StandardConflict(root_path, "", local_path))]

\* Mutant of standard_conflict: the two roots change places.
standard_conflict_swapped(t, root, root_path, local_path) ==
    [tree |-> t, panic |-> FALSE,
     ret |-> IF IsSome(root)
             THEN Some(StandardConflict(Unwrap(root), root_path, local_path))
             ELSE Some(StandardConflict("", root_path, local_path))]

\* handle_conflict under First: the conflict names the incoming root and the
\* occupant's root.
standard_conflict(t, root, root_path, local_path) ==
    [tree |-> t, panic |-> FALSE,
     ret |-> IF IsSome(root)
             THEN Some(StandardConflict(root_path, Unwrap(root), local_path))
             ELSE Some(StandardConflict(root_path, "", local_path))]

\* The tree remove_paths_by_root(root) leaves.  It is the same for every order
\* of its walk, and handle_conflict drops the list returned.
evict_root(t, root) ==
    remove_paths_by_root(t, root, CHOOSE w \in walk_paths(t) : TRUE).tree

\* Mutant of no_root: the entries of the occupant's root are evicted, and that
\* root is reported.
no_root_evict_occupant(t, root_path, local_path) ==
    [tree |-> evict_root(t, Unwrap(get_root_for_path(t, local_path))),
     panic |-> FALSE,
     ret |-> Some(RootConflict(Unwrap(get_root_for_path(t, local_path)),
                               local_path))]

\* handle_conflict under NoRoot: the entries of the incoming root are evicted.
no_root(t, root_path, local_path) ==
    root_conflict(evict_root(t, root_path),
                  get_root_for_path(evict_root(t, root_path), local_path),
                  root_path, local_path)

\* Mutant of handle_conflict: Strict lets the file through as Last does.
handle_conflict_strict_passes(t, handler, root_path, local_path) ==
    CASE handler = "NoRoot" -> no_root(t, root_path, local_path)
      [] handler = "First" ->
            standard_conflict(t, get_root_for_path(t, local_path), root_path,
                              local_path)
      [] OTHER -> [tree |-> t, panic |-> FALSE, ret |-> None]

\* LaunchPad::handle_conflict: the tree afterwards and Some(conflict), None,
\* or the panic of Strict.
handle_conflict(t, handler, root_path, local_path) ==
    CASE handler = "Strict" -> [tree |-> t, panic |-> TRUE, ret |-> None]
      [] handler = "NoRoot" -> no_root(t, root_path, local_path)
      [] handler = "First" ->
            standard_conflict(t, get_root_for_path(t, local_path), root_path,
                              local_path)
      [] handler = "Last" -> [tree |-> t, panic |-> FALSE, ret |-> None]

\* What one call of discover_in_root has done so far: the tree, the collected
\* pairs, the conflicts pushed, and how it stands (walking, returned early with
\* a root conflict, or panicked).
Progress(t, collected, conflicts, status) ==
    [tree |-> t, collected |-> collected, conflicts |-> conflicts,
     status |-> status]

\* Mutant of conflict_reported: a root conflict is pushed like any other and
\* the walk goes on.
conflict_reported_goes_on(st, t, conflict) ==
    Progress(t, st.collected, Append(st.conflicts, conflict), "walking")

\* discover_in_root with the conflict handle_conflict returned: a root
\* conflict is returned alone, at once; any other is pushed.
conflict_reported(st, t, conflict) ==
    IF conflict.kind = "RootConflict"
    THEN Progress(t, st.collected, <<conflict>>, "root_conflict")
    ELSE Progress(t, st.collected, Append(st.conflicts, conflict), "walking")

\* Mutant of conflict_overwritten: the file is inserted and nothing is pushed.
conflict_overwritten_silent(st, r, root) ==
    Progress(r.tree, st.collected, st.conflicts, "walking")

\* discover_in_root when handle_conflict returned no conflict: the file is
\* inserted, and what it replaced is pushed as a conflict.
conflict_overwritten(st, r, root) ==
    Progress(r.tree, st.collected,
             IF IsSome(r.ret)
             THEN Append(st.conflicts,
                         StandardConflict(Unwrap(r.ret)[1], root,
                                          Unwrap(r.ret)[2]))
             ELSE st.conflicts,
             "walking")

\* discover_in_root for a file whose local path is in the tree, h being what
\* handle_conflict did.
file_present(st, h, root, local_path) ==
    IF h.panic THEN Progress(h.tree, st.collected, st.conflicts, "panic")
    ELSE IF IsSome(h.ret) THEN conflict_reported(st, h.tree, Unwrap(h.ret))
    ELSE conflict_overwritten(st, insert_file(h.tree, root, local_path), root)

\* discover_in_root for a file whose local path is not in the tree, r being
\* what insert_file did.
file_absent(st, r) ==
    Progress(r.tree, st.collected, st.conflicts,
             IF IsSome(r.ret) THEN "panic" ELSE "walking")

\* Mutant of discover_entry: a directory is inserted whether or not its path
\* is in the tree.
discover_entry_reinserts(p, st, root, entry) ==
    IF entry.local \in p.collect
    THEN Progress(st.tree, Append(st.collected, <<root, entry.local>>),
                  st.conflicts, "walking")
    ELSE IF entry.local \in p.ignore THEN st
    ELSE IF entry.ftype = "dir"
    THEN Progress(insert_directory(st.tree, root, entry.local).tree,
                  st.collected, st.conflicts, "walking")
    ELSE IF entry.ftype = "file"
    THEN IF contains_path(st.tree, entry.local)
         THEN file_present(st,
                  handle_conflict(st.tree, p.handler, root, entry.local),
                  root, entry.local)
         ELSE file_absent(st, insert_file(st.tree, root, entry.local))
    ELSE st

\* The body of discover_in_root's loop for one entry of the walk.
discover_entry(p, st, root, entry) ==
    IF entry.local \in p.collect
    THEN Progress(st.tree, Append(st.collected, <<root, entry.local>>),
                  st.conflicts, "walking")
    ELSE IF entry.local \in p.ignore THEN st
    ELSE IF entry.ftype = "dir"
    THEN IF ~contains_path(st.tree, entry.local)
         THEN Progress(insert_directory(st.tree, root, entry.local).tree,
                       st.collected, st.conflicts, "walking")
         ELSE st
    ELSE IF entry.ftype = "file"
    THEN IF contains_path(st.tree, entry.local)
         THEN file_present(st,
                  handle_conflict(st.tree, p.handler, root, entry.local),
                  root, entry.local)
         ELSE file_absent(st, insert_file(st.tree, root, entry.local))
    ELSE st

\* LaunchPad::discover_in_root over the entries of walk still to come.
RECURSIVE discover_loop(_, _, _, _)
discover_loop(p, st, root, walk) ==
    IF walk = <<>> \/ st.status # "walking" THEN st
    ELSE discover_loop(p, discover_entry(p, st, root, Head(walk)), root,
                       Tail(walk))

\* LaunchPad::discover_in_root: the tree, the collected pairs and the
\* conflicts returned, the walk of root yielding the entries of walk.
discover_in_root(p, t, root, walk) ==
    LET st == discover_loop(p, Progress(t, p.collected, <<>>, "walking"),
                            root, walk)
    IN  Progress(st.tree, st.collected, st.conflicts,
                 IF st.status = "walking" THEN "returned" ELSE st.status)

RECURSIVE discover_roots(_, _, _, _)

\* Mutant of nested_returned: a root conflict of a nested call ends the outer
\* enumeration too.
nested_returned_stops(p, r, rest, conflicts) ==
    IF r.status = "panic"
    THEN Progress(r.tree, r.collected, conflicts, "panic")
    ELSE IF r.status = "root_conflict"
    THEN Progress(r.tree, r.collected, conflicts \o r.conflicts, "returned")
    ELSE discover_roots([p EXCEPT !.collected = r.collected], r.tree, rest,
                        conflicts \o r.conflicts)

\* discover_roots once a nested discover_in_root has come to r: its conflicts
\* are appended and the outer walk goes on with the rest of what it finds; a
\* panic unwinds through discover_roots.
nested_returned(p, r, rest, conflicts) ==
    IF r.status = "panic"
    THEN Progress(r.tree, r.collected, conflicts, "panic")
    ELSE discover_roots([p EXCEPT !.collected = r.collected], r.tree, rest,
                        conflicts \o r.conflicts)

\* LaunchPad::discover_roots, found listing in the order of the outer walk the
\* entries at the given depth that pass the filter, each with the entries its
\* own walk yields; conflicts are the conflicts appended so far.
discover_roots(p, t, found, conflicts) ==
    IF found = <<>> THEN Progress(t, p.collected, conflicts, "returned")
    ELSE nested_returned(p,
             discover_in_root(p, t, Head(found).root, Head(found).walk),
             Tail(found), conflicts)

\* ------------------------------------------------------------------ Orbit

\* The layers, by the tags of orbit::Error.
Layers == {"Virtual", "Patch", "Physical"}

\* LaunchPad::launch: the physical tree is a new tree over the physical
\* loader, the patch tree is the LaunchPad's tree, virt is the tree given.
launch(patch, virt) == [physical |-> TreeNew, patch |-> patch, virt |-> virt]

\* Ok(data): the bytes a layer's loader gave for the (root, local) of r.
Bytes(layer, r) ==
    [kind |-> "Ok", layer |-> layer, root |-> r.root, local |-> r.local]

\* Err(Error::Virtual(e)), Err(Error::Patch(e)) or Err(Error::Physical(e)).
Error(layer, r) ==
    [kind |-> "Err", layer |-> layer, root |-> r.root, local |-> r.local]

\* The panic of expect("Physical loader did not return valid file data!").
ExpectPanic == [kind |-> "Panic"]

\* The match on a layer's Tree::load result r: its bytes, its error tagged
\* with the layer, or on Ok(None) what comes next.
through(layer, r, next) ==
    IF r.kind = "OkSome" THEN Bytes(layer, r)
    ELSE IF r.kind = "Err" THEN Error(layer, r)
    ELSE next

\* Mutant of load_physical: Ok(None) from the physical tree is a soft miss.
load_physical_soft_miss(o, path, resp) ==
    through("Physical", load(o.physical, path, resp.Physical),
            [kind |-> "NotPresent"])

\* Orbit::load_physical, resp giving each layer's loader's answer to
\* load_path.
load_physical(o, path, resp) ==
    through("Physical", load(o.physical, path, resp.Physical), ExpectPanic)

\* Orbit::load_patch.
load_patch(o, path, resp) ==
    through("Patch", load(o.patch, path, resp.Patch),
            load_physical(o, path, resp))

\* Orbit::load.
orbit_load(o, path, resp) ==
    through("Virtual", load(o.virt, path, resp.Virtual),
            load_patch(o, path, resp))

\* The file sizes a loader's get_file_size answers with.
Sizes == {10, 20}

SizeAnswers == {None} \cup {Some(n) : n \in Sizes}

\* Tree::query_filesize, the loader's get_file_size answering answer for the
\* node's (root, local).
query_filesize(t, path, answer) ==
    IF IsSome(get_path(t, path)) THEN answer ELSE None

\* Tree::query_filesize_local: the loader is asked for ("", path) whatever
\* the tree holds.
query_filesize_local(t, path, answer) == answer

\* Option::max: None is below every Some.
OptionMax(a, b) ==
    IF ~IsSome(a) THEN b
    ELSE IF ~IsSome(b) THEN a
    ELSE IF Unwrap(a) >= Unwrap(b) THEN a ELSE b

\* Orbit::query_max_layered_filesize, sizes giving each layer's loader's
\* answer to get_file_size.
query_max_layered_filesize(o, path, sizes) ==
    OptionMax(query_filesize(o.virt, path, sizes.Virtual),
              query_filesize(o.patch, path, sizes.Patch))

\* Orbit::query_max_filesize.
query_max_filesize(o, path, sizes) ==
    OptionMax(query_max_layered_filesize(o, path, sizes),
              query_filesize(o.physical, path, sizes.Physical))

\* Orbit::physical_filesize.
physical_filesize(o, path, sizes) ==
    query_filesize_local(o.physical, path, sizes.Physical)

\* -------------------------------------------------------------- the state

\* What the last call was: its arguments, the tree it started from, what the
\* collaborators answered (inp) and what it returned (ret).
Call(op, root, path, etype, inp, ret) ==
    [op |-> op, root |-> root, path |-> path, etype |-> etype, inp |-> inp,
     pre |-> tree, ret |-> ret]

NodeCount(t) == Cardinality(DOMAIN t) - 1

\* The payloads of a tree, the root node's excluded.
Entries(t) == {t[p] : p \in DOMAIN t \ {<<>>}}

\* No call is being observed: the next one may start.
Idle == last.op = "idle"

\* No Orbit: nothing has been launched.
NoOrbit == [physical |-> TreeNew, patch |-> TreeNew, virt |-> TreeNew]

\* No LaunchPad: the tree is used on its own.
NoPad == [handler |-> "Strict", ignore |-> {}, collect |-> {}, collected |-> <<>>]

\* Tree::new.
Init ==
    /\ tree = TreeNew
    /\ last = [op |-> "idle"]
    /\ pad = NoPad
    /\ orbit = NoOrbit

\* insert_file(root, path).
InsertFile ==
    /\ Idle
    /\ UNCHANGED <<pad, orbit>>
    /\ \E root \in Roots, path \in LocalPaths :
        LET r == insert_file(tree, root, path)
        IN  /\ NodeCount(r.tree) <= MaxNodes
            /\ tree' = r.tree
            /\ last' = Call("insert_file", root, path, "File", None, r.ret)

\* insert_directory(root, path).
InsertDirectory ==
    /\ Idle
    /\ UNCHANGED <<pad, orbit>>
    /\ \E root \in Roots, path \in LocalPaths :
        LET r == insert_directory(tree, root, path)
        IN  /\ NodeCount(r.tree) <= MaxNodes
            /\ tree' = r.tree
            /\ last' = Call("insert_directory", root, path, "Directory",
                            None, r.ret)

\* insert_path(root, path), the loader's get_path_type answering entry_type.
\* (When the loader fails instead, unwrap() aborts the call before any change.)
InsertPath ==
    /\ Idle
    /\ UNCHANGED <<pad, orbit>>
    /\ \E root \in Roots, path \in LocalPaths, entry_type \in EntryTypes :
        LET r == insert_path_unchecked(tree, root, path, entry_type)
        IN  /\ NodeCount(r.tree) <= MaxNodes
            /\ tree' = r.tree
            /\ last' = Call("insert_path", root, path, entry_type, None, r.ret)

\* remove_path(path).
RemovePath ==
    /\ Idle
    /\ UNCHANGED <<pad, orbit>>
    /\ \E path \in LocalPaths :
        LET r == remove_path(tree, path)
        IN  /\ tree' = r.tree
            /\ last' = Call("remove_path", "", path, "File", None, r.ret)

\* remove_paths_by_root(root).
RemovePathsByRoot ==
    /\ Idle
    /\ UNCHANGED <<pad, orbit>>
    /\ \E root \in Roots, w \in walk_paths(tree) :
        LET r == remove_paths_by_root(tree, root, w)
        IN  /\ tree' = r.tree
            /\ last' = Call("remove_paths_by_root", root, <<>>, "File", w, r.ret)

\* filter_walk_paths(f), f rejecting the payloads in rej.
FilterWalkPaths ==
    /\ Idle
    /\ UNCHANGED <<pad, orbit>>
    /\ \E rej \in SUBSET Entries(tree) :
        \E rejected \in filter_internal(tree, <<>>, rej) :
            LET r == filter_walk_paths(tree, rejected)
            IN  /\ tree' = r.tree
                /\ last' = Call("filter_walk_paths", "", <<>>, "File", rej, r.ret)

\* purify(), the loader's path_exists holding of the pairs in exists.
Purify ==
    /\ Idle
    /\ UNCHANGED <<pad, orbit>>
    /\ \E gone \in SUBSET Entries(tree), w \in walk_paths(tree) :
        LET exists == {<<e.root_path, e.local_path>> : e \in Entries(tree) \ gone}
        IN  /\ tree' = purify(tree, exists, w)
            /\ last' = Call("purify", "", <<>>, "File", exists, None)

\* load(path), the loader's load_path answering resp.
Load ==
    /\ Idle
    /\ UNCHANGED <<pad, orbit>>
    /\ \E path \in LocalPaths, resp \in {"Ok", "Err"} :
        /\ tree' = tree
        /\ last' = Call("load", "", path, "File", resp, load(tree, path, resp))

\* get_path_type(path), the loader's get_path_type answering resp.
GetPathType ==
    /\ Idle
    /\ UNCHANGED <<pad, orbit>>
    /\ \E path \in LocalPaths, resp \in {"Directory", "File", "Err"} :
        /\ tree' = tree
        /\ last' = Call("get_path_type", "", path, "File", resp,
                        get_path_type(tree, path, resp))

\* The caller takes what the call returned; the next call starts from the
\* tree alone.
Return ==
    /\ ~Idle
    /\ last' = [op |-> "idle"]
    /\ UNCHANGED <<tree, pad, orbit>>

Next ==
    \/ InsertFile
    \/ InsertDirectory
    \/ InsertPath
    \/ RemovePath
    \/ RemovePathsByRoot
    \/ FilterWalkPaths
    \/ Purify
    \/ Load
    \/ GetPathType
    \/ Return

Spec == Init /\ [][Next]_vars

\* LaunchPad::new(loader, handler).
DiscoverInit ==
    /\ tree = TreeNew
    /\ last = [op |-> "idle"]
    /\ \E handler \in ConflictHandlers :
           pad = [handler |-> handler, ignore |-> {}, collect |-> {},
                  collected |-> <<>>]
    /\ orbit = NoOrbit

\* discover_in_root(root), the walk of root yielding the entries of walk.
\* Observed of the call: how it ended, the conflicts it returned, and the pairs
\* it pushed onto the accumulator.
DiscoverInRoot ==
    /\ Idle
    /\ \E root \in DiscoverRoots, walk \in Walks :
        LET r == discover_in_root(pad, tree, root, walk)
        IN  /\ NodeCount(r.tree) <= MaxNodes
            /\ Len(r.collected) <= MaxCollected
            /\ tree' = r.tree
            /\ pad' = [pad EXCEPT !.collected = r.collected]
            /\ UNCHANGED orbit
            /\ last' = Call("discover_in_root", root, <<>>, "File", walk,
                            [status |-> r.status, conflicts |-> r.conflicts,
                             recorded |-> SubSeq(r.collected,
                                                 Len(pad.collected) + 1,
                                                 Len(r.collected))])

\* The predicates given to ignoring and collecting, each as the set of local
\* paths it holds of: the default, which holds of none, and "the file name is
\* a".
Predicates == {{}, {path \in LocalPaths : FileName(path) = "a"}}

\* ignoring(ignore_fn).
Ignoring ==
    /\ Idle
    /\ \E ignore_fn \in Predicates \ {pad.ignore} :
           pad' = [pad EXCEPT !.ignore = ignore_fn]
    /\ UNCHANGED <<tree, last, orbit>>

\* collecting(collect_fn).
Collecting ==
    /\ Idle
    /\ \E collect_fn \in Predicates \ {pad.collect} :
           pad' = [pad EXCEPT !.collect = collect_fn]
    /\ UNCHANGED <<tree, last, orbit>>

\* The caller takes the conflicts returned.  A call that panicked returns
\* nothing: the LaunchPad is not used again.
DiscoverReturn ==
    /\ last.op = "discover_in_root"
    /\ last.ret.status # "panic"
    /\ last' = [op |-> "idle"]
    /\ UNCHANGED <<tree, pad, orbit>>

DiscoverNext ==
    \/ DiscoverInRoot
    \/ DiscoverReturn

\* A LaunchPad left with its default predicates.
DiscoverSpec == DiscoverInit /\ [][DiscoverNext]_vars

CollectNext ==
    \/ Ignoring
    \/ Collecting
    \/ DiscoverInRoot
    \/ DiscoverReturn

\* A LaunchPad whose predicates are set.
CollectSpec == DiscoverInit /\ [][CollectNext]_vars

\* The walks of fewer than MaxWalk entries that yield directories and files
\* only (discover_in_root passes over any other entry).
NestedWalks ==
    {w \in Walks :
        /\ Len(w) < MaxWalk
        /\ \A i \in 1..Len(w) : w[i].ftype \in {"dir", "file"}}

\* What the outer walk of discover_roots can find: roots that pass the
\* filter, each once, their walks yielding at most MaxWalk entries in all.
Found ==
    {<<>>}
    \cup {<<[root |-> root, walk |-> walk]>> :
              root \in DiscoverRoots, walk \in NestedWalks}
    \cup {f \in {<<[root |-> r1, walk |-> w1], [root |-> r2, walk |-> w2]>> :
                      r1 \in DiscoverRoots, r2 \in DiscoverRoots,
                      w1 \in NestedWalks, w2 \in NestedWalks} :
              /\ f[1].root # f[2].root
              /\ Len(f[1].walk) + Len(f[2].walk) <= MaxWalk}

\* discover_roots(path, depth, filter), the outer walk finding found.
DiscoverRootsCall ==
    /\ Idle
    /\ \E found \in Found :
        LET r == discover_roots(pad, tree, found, <<>>)
        IN  /\ NodeCount(r.tree) <= MaxNodes
            /\ Len(r.collected) <= MaxCollected
            /\ tree' = r.tree
            /\ pad' = [pad EXCEPT !.collected = r.collected]
            /\ UNCHANGED orbit
            /\ last' = Call("discover_roots", "", <<>>, "File", found,
                            [status |-> r.status, conflicts |-> r.conflicts])

\* The caller takes the conflicts discover_roots returned, unless it panicked.
RootsReturn ==
    /\ last.op = "discover_roots"
    /\ last.ret.status # "panic"
    /\ last' = [op |-> "idle"]
    /\ UNCHANGED <<tree, pad, orbit>>

RootsNext ==
    \/ DiscoverRootsCall
    \/ RootsReturn

\* A LaunchPad that discovers its roots through discover_roots.
RootsSpec == DiscoverInit /\ [][RootsNext]_vars

\* The caller takes what the call returned, unless it was a discovery that
\* panicked.
MixedReturn ==
    /\ ~Idle
    /\ last.op = "discover_in_root" => last.ret.status # "panic"
    /\ last' = [op |-> "idle"]
    /\ UNCHANGED <<tree, pad, orbit>>

MixedNext ==
    \/ InsertFile
    \/ InsertDirectory
    \/ InsertPath
    \/ RemovePath
    \/ RemovePathsByRoot
    \/ FilterWalkPaths
    \/ Purify
    \/ Load
    \/ GetPathType
    \/ DiscoverInRoot
    \/ MixedReturn

\* A tree worked on by its own operations and by discovery in turn: the
\* LaunchPad is made of a tree (from_tree) and gives it back (into_tree).
MixedSpec == DiscoverInit /\ [][MixedNext]_vars

\* The trees a LaunchPad holds after discovering one root that holds at most
\* one entry.  (The Orbit never changes its patch tree: one entry is enough
\* to tell a path the patch layer holds from one it does not.)
LaunchTrees ==
    {discover_in_root(NoPad, TreeNew, root, walk).tree :
        root \in DiscoverRoots, walk \in {w \in Walks : Len(w) <= 1}}

\* LaunchPad::launch(physical, virt) with a new virt tree.
OrbitInit ==
    /\ tree = TreeNew
    /\ last = [op |-> "idle"]
    /\ pad = NoPad
    /\ \E patch \in LaunchTrees : orbit = launch(patch, TreeNew)

\* What the last call on the Orbit was: its path, the three trees it started
\* from, what the loaders answer (inp) and what it returned (ret).
OrbitCall(op, path, inp, ret) ==
    [op |-> op, path |-> path, inp |-> inp, pre |-> orbit, ret |-> ret]

\* insert_virtual_file(root_path, local_path).
InsertVirtualFile ==
    /\ Idle
    /\ UNCHANGED <<tree, pad>>
    /\ \E root \in Roots, path \in LocalPaths :
        LET r == insert_file(orbit.virt, root, path)
        IN  /\ NodeCount(r.tree) <= MaxNodes
            /\ orbit' = [orbit EXCEPT !.virt = r.tree]
            /\ last' = OrbitCall("insert_virtual_file", path, root, r.ret)

\* insert_virtual_directory(root_path, local_path).
InsertVirtualDirectory ==
    /\ Idle
    /\ UNCHANGED <<tree, pad>>
    /\ \E root \in Roots, path \in LocalPaths :
        LET r == insert_directory(orbit.virt, root, path)
        IN  /\ NodeCount(r.tree) <= MaxNodes
            /\ orbit' = [orbit EXCEPT !.virt = r.tree]
            /\ last' = OrbitCall("insert_virtual_directory", path, root, r.ret)

\* load(path), each layer's loader answering load_path as resp says.
OrbitLoad ==
    /\ Idle
    /\ UNCHANGED <<tree, pad, orbit>>
    /\ \E path \in LocalPaths, resp \in [Layers -> {"Ok", "Err"}] :
        last' = OrbitCall("load", path, resp, orbit_load(orbit, path, resp))

\* query_max_filesize(local_path), each layer's loader answering
\* get_file_size as sizes says.
QueryMaxFilesize ==
    /\ Idle
    /\ UNCHANGED <<tree, pad, orbit>>
    /\ \E path \in LocalPaths, sizes \in [Layers -> SizeAnswers] :
        last' = OrbitCall("query_max_filesize", path, sizes,
                          query_max_filesize(orbit, path, sizes))

\* The caller takes what the call returned.  A call that panicked returns
\* nothing.
OrbitReturn ==
    /\ last.op \in {"insert_virtual_file", "insert_virtual_directory", "load",
                    "query_max_filesize"}
    /\ last.op = "load" => last.ret.kind # "Panic"
    /\ last' = [op |-> "idle"]
    /\ UNCHANGED <<tree, pad, orbit>>

OrbitNext ==
    \/ InsertVirtualFile
    \/ InsertVirtualDirectory
    \/ OrbitLoad
    \/ QueryMaxFilesize
    \/ OrbitReturn

OrbitSpec == OrbitInit /\ [][OrbitNext]_vars

\* ------------------------------------------------------------------ claims

\* The proper ancestors of a local path, the empty path excluded.
Ancestors(path) == {SubSeq(path, 1, k) : k \in 1..(Len(path) - 1)}

\* The last call was one of the three inserts.
IsInsert == last.op \in {"insert_file", "insert_directory", "insert_path"}

\* C1: Trie prefix invariant.  For every local path stored in the tree every
\* proper ancestor path is present too, and after an insert every ancestor of
\* the inserted path that was absent before the call is a Directory entry with
\* an empty root_path.
C1_TriePrefixInvariant ==
    /\ \A e \in Entries(tree) :
           \A a \in Ancestors(e.local_path) : contains_path(tree, a)
    /\ IsInsert =>
           \A a \in Ancestors(last.path) :
               ~contains_path(last.pre, a) =>
                   /\ contains_path(tree, a)
                   /\ tree[a] = [root_path |-> "", local_path |-> a,
                                 entry_type |-> "Directory"]

\* An insert below the top level into an empty tree: every ancestor is created.
C1_Witness ==
    /\ last.op = "insert_file"
    /\ Len(last.path) > 1
    /\ last.root = "R1"
    /\ NodeCount(last.pre) = 0
    /\ NodeCount(tree) = Len(last.path)

\* C2: Uniqueness with subtree replacement.  No two nodes of the tree store
\* the same local path, and an insert at an occupied path replaces the entry
\* there and leaves none of the path's former strict descendants.
C2_UniqueSubtreeReplace ==
    /\ \A p \in DOMAIN tree, q \in DOMAIN tree :
           tree[p].local_path = tree[q].local_path => p = q
    /\ \A p \in DOMAIN tree : get_path(tree, tree[p].local_path) = Some(p)
    /\ (IsInsert /\ contains_path(last.pre, last.path)) =>
           /\ contains_path(tree, last.path)
           /\ tree[last.path].entry_type = last.etype
           /\ tree[last.path].local_path = last.path
           /\ \A q \in DOMAIN last.pre :
                  (IsPrefix(last.path, q) /\ q # last.path) =>
                      ~contains_path(tree, q)

\* Directory D re-inserted over a D that held a file D/f.
C2_Witness ==
    /\ last.op = "insert_directory"
    /\ contains_path(last.pre, last.path)
    /\ last.pre[last.path].entry_type = "Directory"
    /\ \E q \in DOMAIN last.pre :
           /\ Parent(q) = last.path
           /\ last.pre[q].entry_type = "File"
    /\ NodeCount(tree) < NodeCount(last.pre)

\* C3: Round trip.  Right after insert_file(R, L) the tree contains L, the
\* entry stored there is (R, L) and get_root_for_path(L) returns R, whatever
\* the tree held before.
C3_RoundTrip ==
    last.op = "insert_file" =>
        /\ contains_path(tree, last.path)
        /\ get_root_for_path(tree, last.path) = Some(last.root)
        /\ tree[Unwrap(get_path(tree, last.path))].root_path = last.root
        /\ tree[Unwrap(get_path(tree, last.path))].local_path = last.path

\* insert_file over a file that another root held.
C3_Witness ==
    /\ last.op = "insert_file"
    /\ last.root = "R2"
    /\ Len(last.path) = 2
    /\ get_root_for_path(last.pre, last.path) = Some("R1")
    /\ get_root_for_path(tree, last.path) = Some("R2")

\* C4: Removal completeness.  remove_path(P) on a tree containing P returns
\* the removed entry's (root, local_path), and no later walk visits P or a
\* strict descendant of P; on a tree without P it returns nothing and leaves
\* the tree as it was.
C4_RemovalCompleteness ==
    last.op = "remove_path" =>
        IF contains_path(last.pre, last.path)
        THEN /\ last.ret = Some(<<last.pre[last.path].root_path,
                                  last.pre[last.path].local_path>>)
             /\ \A w \in walk_paths(tree) : \A p \in Visited(w) :
                    ~IsPrefix(last.path, tree[p].local_path)
        ELSE /\ last.ret = None
             /\ tree = last.pre

\* remove_path of an entry that had a child.
C4_Witness ==
    /\ last.op = "remove_path"
    /\ contains_path(last.pre, last.path)
    /\ Children(last.pre, last.path) # {}
    /\ NodeCount(tree) < NodeCount(last.pre) - 1
    /\ IsSome(last.ret)

\* The entries of t bound to root that have no proper ancestor bound to it.
TopmostOfRoot(t, root) ==
    {p \in DOMAIN t \ {<<>>} :
        /\ t[p].root_path = root
        /\ \A a \in Ancestors(p) : t[a].root_path # root}

\* C5: After remove_paths_by_root(R) no entry of the tree has root_path R, and
\* the list returned holds, once each, exactly the local paths whose removal
\* took effect: those bound to R with no ancestor bound to R (an entry under
\* one is already gone when its turn comes).
C5_RemoveByRoot ==
    last.op = "remove_paths_by_root" =>
        /\ \A e \in Entries(tree) : e.root_path # last.root
        /\ \A w \in walk_paths(tree) : \A p \in Visited(w) :
               tree[p].root_path # last.root
        /\ Visited(last.ret) = TopmostOfRoot(last.pre, last.root)
        /\ Len(last.ret) = Cardinality(TopmostOfRoot(last.pre, last.root))

\* A file of R1 with a file of R1 beneath it: one removal takes effect, and
\* the other entry is gone when its turn comes.
C5_Witness ==
    /\ last.op = "remove_paths_by_root"
    /\ last.root = "R1"
    /\ Cardinality({p \in DOMAIN last.pre \ {<<>>} :
                       last.pre[p].root_path = "R1"}) = 2
    /\ Len(last.ret) = 1

\* C6: After filter_walk_paths(pred), pred depending only on the entry and its
\* type, no entry left in the tree is one that pred rejects.
C6_FilterWalk ==
    last.op = "filter_walk_paths" =>
        /\ \A e \in Entries(tree) : e \notin last.inp
        /\ \A w \in walk_paths(tree) : \A p \in Visited(w) :
               tree[p] \notin last.inp

\* Every File rejected, in a tree with a directory and a file in it: only the
\* directory is left.
C6_Witness ==
    /\ last.op = "filter_walk_paths"
    /\ last.inp = {e \in Entries(last.pre) : e.entry_type = "File"}
    /\ Len(last.ret) > 0
    /\ NodeCount(tree) > 0
    /\ \A e \in Entries(tree) : e.entry_type = "Directory"

\* The positions of t whose entry, and every ancestor's entry, the loader
\* finds to exist.
Surviving(t, exists) ==
    {p \in DOMAIN t :
        \A k \in 1..Len(p) :
            <<t[SubSeq(p, 1, k)].root_path, t[SubSeq(p, 1, k)].local_path>>
                \in exists}

\* C7: Purify.  After purify() the tree holds exactly the former entries for
\* which path_exists(root_path, local_path) holds for the entry and for each
\* of its ancestors, each unchanged.
C7_Purify ==
    last.op = "purify" =>
        /\ DOMAIN tree = Surviving(last.pre, last.inp)
        /\ \A p \in DOMAIN tree : tree[p] = last.pre[p]

\* A directory that vanished with a file in it that still exists.
C7_Witness ==
    /\ last.op = "purify"
    /\ \E p \in DOMAIN last.pre \ DOMAIN tree :
           /\ Len(p) = 2
           /\ <<last.pre[p].root_path, last.pre[p].local_path>> \in last.inp
           /\ last.pre[p].entry_type = "File"

\* C8: Insert return value.  An insert returns the (root, local_path) stored
\* at the path before the call when the path was occupied, and nothing when
\* it was not; the root returned for a replaced directory is empty.
C8_InsertReturn ==
    IsInsert =>
        /\ IF contains_path(last.pre, last.path)
           THEN last.ret = Some(<<last.pre[last.path].root_path, last.path>>)
           ELSE last.ret = None
        /\ (contains_path(last.pre, last.path)
              /\ last.pre[last.path].entry_type = "Directory") =>
               last.ret = Some(<<"", last.path>>)

\* insert_directory from another root over a directory that holds a file.
C8_Witness ==
    /\ last.op = "insert_directory"
    /\ last.root = "R2"
    /\ last.ret = Some(<<"", last.path>>)
    /\ Children(last.pre, last.path) # {}

\* C9: Soft miss on load.  load(P) for P outside the trie reports "not
\* present", never bytes and never an error, and load(P) for P in the trie
\* asks the loader for the node's stored (root, local_path).
C9_LoadSoftMiss ==
    last.op = "load" =>
        IF contains_path(last.pre, last.path)
        THEN /\ last.ret.root = last.pre[last.path].root_path
             /\ last.ret.local = last.pre[last.path].local_path
             /\ last.ret.kind \in {"OkSome", "Err"}
        ELSE last.ret.kind = "OkNone"

\* ------------------------------------------------- claims about discovery

\* The LaunchPad as the observed call of discover_in_root found it.
CallPad == [pad EXCEPT !.collected = <<>>]

\* How far the observed call had come before entry i of its walk.
StateBefore(i) ==
    discover_loop(CallPad, Progress(last.pre, <<>>, <<>>, "walking"),
                  last.root, SubSeq(last.inp, 1, i - 1))

\* Entry i of the observed call's walk was a file, neither collected nor
\* ignored, that met an occupied local path.
Collided(i) ==
    /\ StateBefore(i).status = "walking"
    /\ last.inp[i].ftype = "file"
    /\ last.inp[i].local \notin (pad.collect \cup pad.ignore)
    /\ contains_path(StateBefore(i).tree, last.inp[i].local)

\* Entry i of a NoRoot call collided with a File entry bound to another root.
NoRootCase(i) ==
    /\ last.op = "discover_in_root"
    /\ pad.handler = "NoRoot"
    /\ i \in 1..Len(last.inp)
    /\ Collided(i)
    /\ StateBefore(i).tree[last.inp[i].local].entry_type = "File"
    /\ StateBefore(i).tree[last.inp[i].local].root_path # last.root

\* A conflict names root R1 and local path L.
NamesRootAndLocal(conflict, R1, L) ==
    /\ conflict.kind = "RootConflict"
    /\ \/ conflict.conflict_file = Join(R1, L)
       \/ conflict.bad_root = R1 /\ conflict.conflict_file = L

\* C10 as claimed: when discover_in_root(R2) under NoRoot meets a file whose
\* local path L is occupied by an entry bound to R1, every entry bound to R1
\* until then is absent afterwards and the one conflict returned names R1 and L.
C10_NoRootEvictsOccupantRoot ==
    \A i \in 1..MaxWalk :
        NoRootCase(i) =>
            LET t0 == StateBefore(i).tree
                L == last.inp[i].local
                R1 == t0[L].root_path
            IN  /\ \A e \in Entries(t0) :
                       e.root_path = R1 => ~contains_path(tree, e.local_path)
                /\ Len(last.ret.conflicts) = 1
                /\ NamesRootAndLocal(last.ret.conflicts[1], R1, L)

\* C10: NoRoot policy, amended.  When discover_in_root(R2) under NoRoot meets
\* a file whose local path L is occupied by a File entry bound to another root
\* R1, the call ends there; every entry bound to the incoming root R2 is absent
\* from the tree afterwards, every other entry that was not beneath an entry of
\* R2 is still there unchanged, and the single conflict returned is
\* RootConflict(R2, R1 joined with L), or RootConflict(R2, L) when the occupant
\* went with an entry of R2 above it.
C10_NoRootEvictsIncomingRoot ==
    \A i \in 1..MaxWalk :
        NoRootCase(i) =>
            LET t0 == StateBefore(i).tree
                L == last.inp[i].local
                R1 == t0[L].root_path
                R2 == last.root
                Kept == {p \in DOMAIN t0 :
                            \A k \in 1..Len(p) :
                                t0[SubSeq(p, 1, k)].root_path # R2}
            IN  /\ last.ret.status = "root_conflict"
                /\ \A e \in Entries(tree) : e.root_path # R2
                /\ DOMAIN tree = Kept
                /\ \A p \in Kept : tree[p] = t0[p]
                /\ last.ret.conflicts =
                       <<RootConflict(R2, IF L \in Kept THEN Join(R1, L)
                                          ELSE L)>>

\* A file of R2 ingested, then a file of R2 meeting a file of R1: the first is
\* evicted, the occupant stays.
C10_Witness ==
    /\ NoRootCase(2)
    /\ last.root = "R2"
    /\ last.inp[1].ftype = "file"
    /\ NodeCount(last.pre) = 1
    /\ NodeCount(StateBefore(2).tree) = 2
    /\ NodeCount(tree) = 1
    /\ get_root_for_path(tree, last.inp[2].local) = Some("R1")

\* Entry i of a call under handler collided with a File entry bound to another
\* root.
PolicyCase(handler, i) ==
    /\ last.op = "discover_in_root"
    /\ pad.handler = handler
    /\ i \in 1..Len(last.inp)
    /\ Collided(i)
    /\ StateBefore(i).tree[last.inp[i].local].entry_type = "File"
    /\ StateBefore(i).tree[last.inp[i].local].root_path # last.root

\* The conflicts the observed call returned for local path L.
ConflictsAt(L) ==
    {k \in 1..Len(last.ret.conflicts) :
        /\ last.ret.conflicts[k].kind = "StandardConflict"
        /\ last.ret.conflicts[k].local = L}

\* The paths of tree t at or beneath path L.
Beneath(t, L) == {p \in DOMAIN t : IsPrefix(L, p)}

\* C11 as claimed: when discover_in_root(R2) under Last meets a file whose
\* local path L is occupied by an entry bound to R1, the tree afterwards has L
\* bound to R2 and no conflict is reported for that entry.
C11_LastReportsNothing ==
    \A i \in 1..MaxWalk :
        PolicyCase("Last", i) =>
            LET L == last.inp[i].local
            IN  /\ get_root_for_path(tree, L) = Some(last.root)
                /\ ConflictsAt(L) = {}

\* C11: Last policy, amended.  When discover_in_root(R2) under Last meets a
\* file whose local path L is occupied by a File entry bound to another root
\* R1, the insert is performed, so the tree afterwards has at L a File entry
\* bound to R2 with nothing beneath it, and exactly one conflict is returned
\* for that entry: StandardConflict with error_root R1 (the overwritten
\* occupant), source_root R2 and local L.
C11_LastOverwritesAndReports ==
    \A i \in 1..MaxWalk :
        PolicyCase("Last", i) =>
            LET t0 == StateBefore(i).tree
                L == last.inp[i].local
                R1 == t0[L].root_path
                R2 == last.root
            IN  /\ last.ret.status = "returned"
                /\ Beneath(tree, L) = {L}
                /\ tree[L] = RawTreeNodeNew(NodeNew(R2, L), "File")
                /\ Cardinality(ConflictsAt(L)) = 1
                /\ \A k \in ConflictsAt(L) :
                       last.ret.conflicts[k] = StandardConflict(R1, R2, L)

\* A file of R2 met a file of R1 under Last and took its place.
C11_Witness ==
    /\ PolicyCase("Last", 1)
    /\ last.root = "R2"
    /\ last.pre[last.inp[1].local].root_path = "R1"
    /\ get_root_for_path(tree, last.inp[1].local) = Some("R2")
    /\ Len(last.ret.conflicts) = 1

\* C12: First policy.  When discover_in_root(R2) under First meets a file
\* whose local path L is occupied by an entry bound to R1, no insert is
\* performed: the tree afterwards has at L and beneath L exactly what it had,
\* and exactly one conflict is returned for that entry, StandardConflict with
\* error_root R2 (the rejected incoming root), source_root R1 and local L.
C12_FirstKeepsOccupant ==
    \A i \in 1..MaxWalk :
        PolicyCase("First", i) =>
            LET t0 == StateBefore(i).tree
                L == last.inp[i].local
                R1 == t0[L].root_path
                R2 == last.root
            IN  /\ last.ret.status = "returned"
                /\ Beneath(tree, L) = Beneath(t0, L)
                /\ \A p \in Beneath(t0, L) : tree[p] = t0[p]
                /\ Cardinality(ConflictsAt(L)) = 1
                /\ \A k \in ConflictsAt(L) :
                       last.ret.conflicts[k] = StandardConflict(R2, R1, L)

\* A file of R2 met a file of R1 under First and was rejected.
C12_Witness ==
    /\ PolicyCase("First", 1)
    /\ last.root = "R2"
    /\ last.pre[last.inp[1].local].root_path = "R1"
    /\ get_root_for_path(tree, last.inp[1].local) = Some("R1")
    /\ Len(last.ret.conflicts) = 1

\* Entry i of a call under Strict was a file that met an occupied local path.
StrictCase(i) ==
    /\ last.op = "discover_in_root"
    /\ pad.handler = "Strict"
    /\ i \in 1..Len(last.inp)
    /\ Collided(i)

Collected(i) ==
    /\ last.op = "discover_in_root"
    /\ i \in 1..Len(last.inp)
    /\ StateBefore(i).status = "walking"
    /\ last.inp[i].local \in pad.collect

\* C18: Collected entries never enter the tree.  A local path that matched
\* the collect predicate during discover_in_root and was not in the tree
\* before the call is not in the tree after the call.
C18_CollectedStayOut ==
    \A i \in 1..MaxWalk :
        (Collected(i) /\ ~contains_path(last.pre, last.inp[i].local)) =>
            ~contains_path(tree, last.inp[i].local)

\* Entry i of a call under NoRoot was a file that met an occupied local path.
ShortCircuit(i) ==
    /\ last.op = "discover_in_root"
    /\ pad.handler = "NoRoot"
    /\ i \in 1..Len(last.inp)
    /\ Collided(i)

\* C19: NoRoot short-circuit.  The first collision of discover_in_root under
\* NoRoot ends the call: the tree is the tree of just before the colliding
\* entry less the incoming root's entries, the pairs recorded are those
\* recorded before the colliding entry, so no later entry of the walk is
\* inserted or recorded, and the call returns exactly one conflict, a
\* RootConflict.
C19_NoRootShortCircuit ==
    \A i \in 1..MaxWalk :
        ShortCircuit(i) =>
            /\ last.ret.status = "root_conflict"
            /\ tree = evict_root(StateBefore(i).tree, last.root)
            /\ last.ret.recorded = StateBefore(i).collected
            /\ Len(last.ret.conflicts) = 1
            /\ last.ret.conflicts[1].kind = "RootConflict"

\* The first entry of a NoRoot walk collided, and a file not in the tree came
\* after it: that file is not in the tree afterwards.
C19_Witness ==
    /\ ShortCircuit(1)
    /\ Len(last.inp) = 2
    /\ last.inp[2].ftype = "file"
    /\ ~contains_path(last.pre, last.inp[2].local)
    /\ ~contains_path(tree, last.inp[2].local)
    /\ last.ret.status = "root_conflict"

\* --------------------------------------------------- claims about the Orbit

\* The last call was Orbit::load.
IsLoad == last.op = "load"

\* What the layer's tree answered Orbit::load in the observed call.
LayerLoad(layer) ==
    CASE layer = "Virtual" ->
            load(last.pre.virt, last.path, last.inp.Virtual)
      [] layer = "Patch" ->
            load(last.pre.patch, last.path, last.inp.Patch)
      [] layer = "Physical" ->
            load(last.pre.physical, last.path, last.inp.Physical)

\* The observed Orbit::load read through the layer: every layer above it
\* answered Ok(None).
ReadThrough(layer) ==
    CASE layer = "Virtual" -> TRUE
      [] layer = "Patch" -> LayerLoad("Virtual").kind = "OkNone"
      [] layer = "Physical" ->
            /\ LayerLoad("Virtual").kind = "OkNone"
            /\ LayerLoad("Patch").kind = "OkNone"

\* The observed Orbit::load was answered by the layer, with bytes or with
\* its error.
AnsweredBy(layer) ==
    /\ last.ret.kind \in {"Ok", "Err"}
    /\ last.ret.layer = layer

\* C14: Layer priority of Orbit::load(p).  The virtual layer answers if and
\* only if the virtual tree contains p; otherwise the patch layer answers if
\* the patch tree contains p; the physical layer is consulted only when
\* neither overlay tree contains p.
C14_LayerPriority ==
    IsLoad =>
        IF contains_path(last.pre.virt, last.path)
        THEN AnsweredBy("Virtual")
        ELSE IF contains_path(last.pre.patch, last.path)
        THEN AnsweredBy("Patch")
        ELSE last.ret.kind = "Panic" \/ AnsweredBy("Physical")

\* C15: Loader errors are propagated with a layer tag.  Whenever the loader
\* of a layer fails while Orbit::load is reading through that layer, the call
\* returns an error tagged with that layer, neither a panic nor a miss, and
\* the three trees are left unchanged.
C15_LoaderErrorsTagged ==
    IsLoad =>
        /\ orbit = last.pre
        /\ \A layer \in Layers :
               (ReadThrough(layer) /\ last.inp[layer] = "Err") =>
                   (last.ret.kind = "Err" /\ last.ret.layer = layer)

\* C16: Physical miss is fatal.  When Orbit::load(p) gets Ok(None) from the
\* virtual tree, from the patch tree and from the physical tree, the call
\* panics; a load never returns a "not present" result: it returns bytes, a
\* tagged error, or panics.
C16_PhysicalMissIsFatal ==
    IsLoad =>
        /\ last.ret.kind \in {"Ok", "Err", "Panic"}
        /\ (\A layer \in Layers : LayerLoad(layer).kind = "OkNone") =>
               last.ret.kind = "Panic"

\* Neither overlay tree holds the path, both overlay trees hold something,
\* no loader has the path, and the load panicked.
C16_Witness ==
    /\ IsLoad
    /\ NodeCount(last.pre.virt) > 0
    /\ NodeCount(last.pre.patch) > 0
    /\ ~contains_path(last.pre.virt, last.path)
    /\ ~contains_path(last.pre.patch, last.path)
    /\ \A layer \in Layers : last.inp[layer] = "Err"
    /\ last.ret.kind = "Panic"

\* C17: query_max_filesize(p) is the numeric maximum of the file sizes the
\* virtual, patch and physical layers report for p, a layer without p
\* contributing nothing; the physical layer's size is the one
\* physical_filesize reports.
C17_MaxOverThreeLayers ==
    last.op = "query_max_filesize" =>
        last.ret =
            OptionMax(OptionMax(query_filesize(last.pre.virt, last.path,
                                               last.inp.Virtual),
                                query_filesize(last.pre.patch, last.path,
                                               last.inp.Patch)),
                      physical_filesize(last.pre, last.path, last.inp))

\* ---------------------------------------------- claims about directories

\* The last call was insert_directory with a non-empty root at a path that
\* held a Directory entry, as an earlier insert_directory of that path
\* leaves whatever root it was given.
DirectoryReinsert ==
    /\ last.op = "insert_directory"
    /\ last.root # ""
    /\ contains_path(last.pre, last.path)
    /\ last.pre[last.path].entry_type = "Directory"

\* C20 as claimed: after insert_directory(R1, D) followed by
\* insert_directory(R2, D), the node at D records R2 as its own root.
C20_LastRootWins ==
    DirectoryReinsert => tree[last.path].root_path = last.root

\* C20: Directory re-insert, amended.  After insert_directory(R1, D) followed
\* by insert_directory(R2, D), the node at D is a Directory entry with an
\* empty root, neither R1 nor R2, with nothing beneath it, and the second call
\* returns the pair ("", D) of the node it replaced.
C20_DirectoryRootStaysEmpty ==
    DirectoryReinsert =>
        /\ tree[last.path] =
               [root_path |-> "", local_path |-> last.path,
                entry_type |-> "Directory"]
        /\ Beneath(tree, last.path) = {last.path}
        /\ last.ret = Some(<<"", last.path>>)

\* insert_directory("R2", D) at a top-level directory D.
C20_Witness ==
    /\ DirectoryReinsert
    /\ last.root = "R2"
    /\ Len(last.path) = 1
    /\ get_root_for_path(tree, last.path) = Some("")

\* C21: Directories carry no root.  In every state reached by inserts,
\* removals, filters, purifies and discoveries, every entry whose type is
\* Directory has an empty root_path, whatever root the call was given; only
\* File entries carry a non-empty root.
C21_DirectoriesHaveNoRoot ==
    \A e \in Entries(tree) :
        e.entry_type = "Directory" => e.root_path = ""

\* A directory discovered in root R1 and, in the same tree, a directory
\* inserted with root R2.
C21_Witness ==
    /\ last.op = "discover_in_root"
    /\ last.root = "R1"
    /\ \E i \in 1..Len(last.inp) :
           /\ last.inp[i].ftype = "dir"
           /\ ~contains_path(last.pre, last.inp[i].local)
           /\ contains_path(tree, last.inp[i].local)
           /\ tree[last.inp[i].local].entry_type = "Directory"
    /\ \E e \in Entries(last.pre) : e.entry_type = "Directory"

\* The paths the observed filter_walk_paths removed from the tree.
FilterRemoved == DOMAIN last.pre \ DOMAIN tree

\* The local paths listed in what the observed filter_walk_paths returned.
FilterListed == {last.ret[k][2] : k \in 1..Len(last.ret)}

\* The entries the predicate rejected that have no rejected entry above them:
\* the ones the traversal reaches.
TopmostRejected ==
    {p \in DOMAIN last.pre \ {<<>>} :
        /\ last.pre[p] \in last.inp
        /\ \A a \in Ancestors(p) : last.pre[a] \notin last.inp}

\* C22 as claimed: the list filter_walk_paths returns has a triple for every
\* entry the call removed from the tree, descendants of a rejected node
\* included.
C22_EveryRemovedListed ==
    last.op = "filter_walk_paths" => FilterRemoved \subseteq FilterListed

\* C22: filter_walk_paths' list, amended.  The list has exactly one triple
\* (root, local_path, reason) for every entry the predicate rejected when the
\* traversal reached it, which are the rejected entries with no rejected
\* entry above them; the entries removed are those and everything beneath
\* them, and the ones beneath are not listed.
C22_TopmostRejectedListed ==
    last.op = "filter_walk_paths" =>
        /\ FilterListed = TopmostRejected
        /\ Len(last.ret) = Cardinality(TopmostRejected)
        /\ \A k \in 1..Len(last.ret) :
               last.ret[k] = <<last.pre[last.ret[k][2]].root_path,
                               last.ret[k][2], "complaint">>
        /\ FilterRemoved =
               {p \in DOMAIN last.pre :
                   \E q \in TopmostRejected : IsPrefix(q, p)}

\* A rejected entry with an entry beneath it: two entries removed, one listed.
C22_Witness ==
    /\ last.op = "filter_walk_paths"
    /\ Len(last.ret) = 1
    /\ Cardinality(FilterRemoved) = 2
    /\ NodeCount(tree) = 0

\* Entry i of the observed call's walk was a directory, neither collected nor
\* ignored, whose local path was in the tree.
DirectoryMet(i) ==
    /\ last.op = "discover_in_root"
    /\ i \in 1..Len(last.inp)
    /\ StateBefore(i).status = "walking"
    /\ last.inp[i].ftype = "dir"
    /\ last.inp[i].local \notin (pad.collect \cup pad.ignore)
    /\ contains_path(StateBefore(i).tree, last.inp[i].local)

\* C23: Directory ingestion is idempotent and never policy-checked.  When
\* discover_in_root yields a directory entry whose local path is in the tree,
\* under any handler and whatever the occupant, that entry leaves the tree as
\* it was, the occupant's subtree included, reports no conflict and lets the
\* walk go on.
C23_DirectoryMetIsNoOp ==
    \A i \in 1..MaxWalk :
        DirectoryMet(i) =>
            /\ StateBefore(i + 1).tree = StateBefore(i).tree
            /\ StateBefore(i + 1).conflicts = StateBefore(i).conflicts
            /\ StateBefore(i + 1).status = "walking"
            /\ Len(last.inp) = i =>
                   /\ \A p \in Beneath(StateBefore(i).tree, last.inp[i].local) :
                          p \in DOMAIN tree /\ tree[p] = StateBefore(i).tree[p]
                   /\ last.ret.conflicts = StateBefore(i).conflicts

\* Root R2 yields a directory where the tree holds a file of R1: the tree is
\* as before and no conflict is returned.
C23_Witness ==
    /\ DirectoryMet(1)
    /\ Len(last.inp) = 1
    /\ last.root = "R2"
    /\ last.pre[last.inp[1].local] =
           [root_path |-> "R1", local_path |-> last.inp[1].local,
            entry_type |-> "File"]
    /\ tree = last.pre
    /\ last.ret.conflicts = <<>>

\* The observed call returned a conflict for entry i of its walk.
Reported(i) ==
    \E k \in 1..Len(last.ret.conflicts) :
        LET conflict == last.ret.conflicts[k]
            L == last.inp[i].local
        IN  IF conflict.kind = "StandardConflict"
            THEN conflict.local = L
            ELSE conflict.conflict_file \in
                     {L, Join(StateBefore(i).tree[L].root_path, L)}

\* C24: A conflict is reported only when two distinct roots both claim the
\* same local path as a file.  Every conflict discover_in_root returns is for
\* a file that met a File entry bound to a root other than the incoming one;
\* re-discovering the same root, or a file meeting a directory, reports none.
C24_ConflictsNeedTwoRoots ==
    last.op = "discover_in_root" =>
        \A i \in 1..MaxWalk :
            (i <= Len(last.inp) /\ Collided(i) /\ Reported(i)) =>
                /\ StateBefore(i).tree[last.inp[i].local].entry_type = "File"
                /\ StateBefore(i).tree[last.inp[i].local].root_path # last.root

\* The observed discover_roots found two roots and did not panic.
TwoRoots ==
    /\ last.op = "discover_roots"
    /\ Len(last.inp) = 2
    /\ last.ret.status # "panic"

\* The first nested discover_in_root of the observed discover_roots.
FirstNested ==
    discover_in_root(CallPad, last.pre, last.inp[1].root, last.inp[1].walk)

\* The second nested call, starting from the tree the first one left.
SecondNested ==
    discover_in_root(CallPad, FirstNested.tree, last.inp[2].root,
                     last.inp[2].walk)

\* C25: discover_roots processes the matching roots one after another and
\* returns the conflicts of the nested discover_in_root calls concatenated in
\* order; a NoRoot short-circuit in one nested call ends only that call: the
\* later root is still discovered, from the tree the earlier call left, and
\* its entries ingested.
C25_DiscoverRootsConcatenates ==
    TwoRoots =>
        /\ last.ret.conflicts = FirstNested.conflicts \o SecondNested.conflicts
        /\ tree = SecondNested.tree
        /\ last.ret.status = "returned"

\* The first root's walk ended in a root conflict, and the second root's
\* file, not in the tree before, is in the tree afterwards.
C25_Witness ==
    /\ TwoRoots
    /\ FirstNested.status = "root_conflict"
    /\ Len(last.inp[2].walk) = 1
    /\ last.inp[2].walk[1].ftype = "file"
    /\ ~contains_path(last.pre, last.inp[2].walk[1].local)
    /\ get_root_for_path(tree, last.inp[2].walk[1].local)
           = Some(last.inp[2].root)
    /\ Len(last.ret.conflicts) = 1

\* The last call was get_path_type of a path that is in the tree.
TypeOfStored ==
    /\ last.op = "get_path_type"
    /\ contains_path(last.pre, last.path)

\* C26: get_path_type(P) for P in the tree as an auto-created directory (a
\* Directory entry with an empty root) returns Directory without consulting
\* the loader; for P in the tree with a non-empty root it forwards the node's
\* stored (root, local_path) to the loader and returns the loader's answer.
C26_GetPathType ==
    TypeOfStored =>
        IF last.pre[last.path].root_path = ""
        THEN last.pre[last.path].entry_type = "Directory" =>
                 last.ret = [kind |-> "Ok", type |-> "Directory",
                             asked |-> None]
        ELSE /\ last.ret.asked = Some(<<last.pre[last.path].root_path,
                                        last.pre[last.path].local_path>>)
             /\ last.ret.type = last.inp

\* The type of a directory created for the file of R1 beneath it, asked of a
\* loader that would have said File.
C26_Witness ==
    /\ TypeOfStored
    /\ last.pre[last.path].entry_type = "Directory"
    /\ \E c \in Children(last.pre, last.path) :
           /\ last.pre[c].entry_type = "File"
           /\ last.pre[c].root_path = "R1"
    /\ last.inp = "File"
    /\ last.ret.type = "Directory"

\* C27: get_path_type agrees with the trie's record for File entries.  For
\* every path stored as a File entry, one inserted with the empty root
\* included, get_path_type reports Directory only if the loader itself
\* classifies the entry as a directory.
C27_FileNeverDirectory ==
    (TypeOfStored /\ last.pre[last.path].entry_type = "File") =>
        (last.ret.type = "Directory" =>
            (IsSome(last.ret.asked) /\ last.inp = "Directory"))

\* C28: Under First discovery is monotone.  For any tree and any walk, every
\* entry present before discover_in_root is present afterwards with the same
\* root_path and entry type, and so is everything that was beneath it: the
\* call only adds entries at paths that were not occupied.
C28_FirstIsMonotone ==
    (last.op = "discover_in_root" /\ pad.handler = "First") =>
        /\ last.ret.status = "returned"
        /\ \A p \in DOMAIN last.pre :
               p \in DOMAIN tree /\ tree[p] = last.pre[p]

\* A walk under First whose first file met an occupied path and whose second
\* file was added beside it.
C28_Witness ==
    /\ PolicyCase("First", 1)
    /\ Len(last.inp) = 2
    /\ last.inp[2].ftype = "file"
    /\ ~contains_path(last.pre, last.inp[2].local)
    /\ contains_path(tree, last.inp[2].local)
    /\ NodeCount(tree) = NodeCount(last.pre) + 1

\* C29: Only directories have children.  In every state reached by
\* insert_file and insert_directory calls (and discoveries, which insert
\* through them), no entry of type File has a child entry.
C29_FilesHaveNoChildren ==
    \A p \in DOMAIN tree \ {<<>>} :
        tree[p].entry_type = "File" => Children(tree, p) = {}

\* C30: All-or-nothing rollback of the incoming root under NoRoot.  When
\* discover_in_root(R) ends in a root conflict, the tree afterwards holds no
\* File entry bound to R, and every entry that was in the tree before the
\* call bound to another root is still present with the same root.
C30_NoRootRollback ==
    (last.op = "discover_in_root" /\ last.ret.status = "root_conflict") =>
        /\ \A e \in Entries(tree) :
               e.entry_type = "File" => e.root_path # last.root
        /\ \A p \in DOMAIN last.pre \ {<<>>} :
               last.pre[p].root_path # last.root =>
                   (p \in DOMAIN tree
                    /\ tree[p].root_path = last.pre[p].root_path)

=============================================================================
